---- MODULE Spec2Model ----
(***************************************************************************)
(* Model of python/Samples.py of znn-release: the dataset classes CImage,  *)
(* CInputImage, COutputLabel and CSample.  Arrays are numpy arrays with    *)
(* 0-based indices; integer vectors are 3-tuples in (z, y, x) order.  The  *)
(* source is Python 2, so "/" on integers is floor division.               *)
(***************************************************************************)
EXTENDS Integers, Sequences, FiniteSets, TLC

VARIABLES
    pc,        \* where the run stands
    pars,      \* the parameter dict handed to the constructors
    config,    \* the configuration sections and the files they name
    img,       \* a CImage
    devrange,  \* what get_dev_range returned
    subvol,    \* what get_sub_volume sliced
    vol,       \* an array handed to an array function
    rft,       \* a transformation rule
    ret,       \* what the last call returned or raised
    label,     \* a COutputLabel
    sample     \* a CSample

vars == <<pc, pars, config, img, devrange, subvol, vol, rft, ret, label, sample>>

(***************************************************************************)
(* Bounds                                                                  *)
(***************************************************************************)
\* largest extent of a volume and of a target size, per axis (CImage runs)
MaxSz == 3
\* largest absolute deviation handed to get_sub_volume (CImage runs)
MaxDev == 2

Axes == 1..3

\* value of a variable that a run does not use
NA == "NA"

(***************************************************************************)
(* Integer vectors                                                         *)
(***************************************************************************)
Vec(S) == [Axes -> S]

VAdd(u, v) == [a \in Axes |-> u[a] + v[a]]

VSub(u, v) == [a \in Axes |-> u[a] - v[a]]

VAddK(u, k) == [a \in Axes |-> u[a] + k]

VHalf(u) == [a \in Axes |-> u[a] \div 2]

VNeg(u) == [a \in Axes |-> -u[a]]

VLeq(u, v) == \A a \in Axes : u[a] <= v[a]

(***************************************************************************)
(* numpy basic slicing arr[a:b] of an axis of extent n: negative bounds     *)
(* count from the end, then both bounds are clipped to [0, n].  The result  *)
(* is the half-open index range lo..hi-1 (empty when hi <= lo).             *)
(***************************************************************************)
PyIndex(n, i) == LET j == IF i < 0 THEN i + n ELSE i
                 IN  IF j < 0 THEN 0 ELSE IF j > n THEN n ELSE j

PySlice(n, a, b) == [lo |-> PyIndex(n, a), hi |-> PyIndex(n, b)]

SliceLen(s) == IF s.hi > s.lo THEN s.hi - s.lo ELSE 0

(***************************************************************************)
(* CImage                                                                  *)
(***************************************************************************)
_get_center_upper(sz) == VHalf(sz)

\* CImage._get_center: lower-index centre
_get_center(sz) == VHalf(VAddK(sz, -1))

\* CImage.__init__, the geometry: sz is arr.shape[1:4], setsz the target size
CImage_fields(sz, setsz) ==
    [sz         |-> sz,
     setsz      |-> setsz,
     center     |-> _get_center(sz),
     low_setsz  |-> VHalf(VAddK(setsz, -1)),
     high_setsz |-> VHalf(setsz)]

\* CImage.get_dev_range
get_dev_range(self) ==
    LET low_sz  == VHalf(VAddK(self.sz, -1))
        high_sz == VHalf(self.sz)
    IN  [low  |-> VNeg(VSub(low_sz, self.low_setsz)),
         high |-> VSub(high_sz, self.high_setsz)]

\* CImage.get_sub_volume, the slice taken on each spatial axis of an array
\* whose spatial shape is shape
SubWindow(self, shape, dev) ==
    LET loc == VAdd(self.center, dev)
    IN  [a \in Axes |-> PySlice(shape[a],
                                loc[a] - self.low_setsz[a],
                                loc[a] + self.high_setsz[a] + 1)]

(***************************************************************************)
(* Runs of one CImage: construct, ask for the range, extract.              *)
(***************************************************************************)
notDev == <<pars, config, vol, rft, ret, label, sample>>

InitDev ==
    /\ pc = "image"
    /\ \E sz \in Vec(1..MaxSz), setsz \in Vec(1..MaxSz) :
          img = CImage_fields(sz, setsz)
    /\ devrange = NA
    /\ subvol = NA
    /\ pars = NA /\ config = NA /\ vol = NA /\ rft = NA /\ ret = NA
    /\ label = NA /\ sample = NA

GetDevRange ==
    /\ pc = "image"
    /\ devrange' = get_dev_range(img)
    /\ pc' = "ranged"
    /\ UNCHANGED <<img, subvol, notDev>>

GetSubVolume ==
    /\ pc = "ranged"
    /\ \E dev \in Vec(-MaxDev..MaxDev) :
          subvol' = [dev |-> dev, win |-> SubWindow(img, img.sz, dev)]
    /\ pc' = "extracted"
    /\ UNCHANGED <<img, devrange, notDev>>

NextDev == GetDevRange \/ GetSubVolume

SpecDev == InitDev /\ [][NextDev]_vars

\* C1: whenever the target size fits the volume and the deviation lies in
\* the range get_dev_range returned, the window get_sub_volume slices is
\* [center+dev-low_setsz, center+dev+high_setsz] on each axis, lies inside
\* [0, shape-1] and holds exactly targetSize voxels; center is
\* floor((shape-1)/2).
C1_WindowInside ==
    (/\ pc = "extracted"
     /\ VLeq(img.setsz, img.sz)
     /\ VLeq(devrange.low, subvol.dev)
     /\ VLeq(subvol.dev, devrange.high))
    => \A a \in Axes :
          LET first == img.center[a] + subvol.dev[a] - img.low_setsz[a]
              last  == img.center[a] + subvol.dev[a] + img.high_setsz[a]
          IN  /\ img.center[a] = (img.sz[a] - 1) \div 2
              /\ 0 <= first
              /\ last <= img.sz[a] - 1
              /\ subvol.win[a].lo = first
              /\ subvol.win[a].hi = last + 1
              /\ SliceLen(subvol.win[a]) = img.setsz[a]

\* a legal non-zero deviation at the upper end of an even-sized volume
C1_Witness ==
    /\ pc = "extracted"
    /\ VLeq(img.setsz, img.sz)
    /\ VLeq(devrange.low, subvol.dev)
    /\ subvol.dev = devrange.high
    /\ \E a \in Axes : img.sz[a] = 2 /\ subvol.dev[a] = 1

(***************************************************************************)
(* numpy arrays: a shape and a value for every index.  Indices are 0-based  *)
(* tuples, one entry per axis.  Boolean arrays hold 0 and 1.                *)
(***************************************************************************)
\* largest extent of a label or mask subvolume, per axis (array runs)
MaxDim == 2
\* largest segment id in a label array (array runs)
MaxLabel == 2

Range(n) == 0..(n - 1)

Idx(shape) ==
    IF Len(shape) = 4
    THEN Range(shape[1]) \X Range(shape[2]) \X Range(shape[3]) \X Range(shape[4])
    ELSE IF Len(shape) = 3
    THEN Range(shape[1]) \X Range(shape[2]) \X Range(shape[3])
    ELSE {<<i>> : i \in Range(shape[1])}

\* np.size
Size(arr) == Cardinality(DOMAIN arr.v)

\* np.zeros
Zeros(shape) == [shape |-> shape, v |-> [i \in Idx(shape) |-> 0]]

\* np.array([])
EmptyArray == Zeros(<<0>>)

\* arr[c, lo1:hi1, lo2:hi2, lo3:hi3] of a 4-d array: an integer index on the
\* channel axis and a slice on each spatial axis give a 3-d array
Sub3(arr, c, s) ==
    LET shape == <<SliceLen(s[1]), SliceLen(s[2]), SliceLen(s[3])>>
    IN  [shape |-> shape,
         v |-> [i \in Idx(shape) |->
                   arr.v[<<c, s[1].lo + i[1], s[2].lo + i[2], s[3].lo + i[3]>>]]]

\* arr[:, lo1:hi1, lo2:hi2, lo3:hi3] of a 4-d array
Sub4(arr, s) ==
    LET shape == <<arr.shape[1], SliceLen(s[1]), SliceLen(s[2]), SliceLen(s[3])>>
    IN  [shape |-> shape,
         v |-> [i \in Idx(shape) |->
                   arr.v[<<i[1], s[1].lo + i[2], s[2].lo + i[3], s[3].lo + i[4]>>]]]

\* the slices "1:", ":-1" and ":" of an axis of extent n
From1(n) == PySlice(n, 1, n)

ToLast(n) == PySlice(n, 0, -1)

Whole(n) == PySlice(n, 0, n)

\* elementwise A == B, A != B, A > 0, A & B of arrays of one shape
Eq(A, B) == [shape |-> A.shape,
             v |-> [i \in Idx(A.shape) |-> IF A.v[i] = B.v[i] THEN 1 ELSE 0]]

Neq(A, B) == [shape |-> A.shape,
              v |-> [i \in Idx(A.shape) |-> IF A.v[i] # B.v[i] THEN 1 ELSE 0]]

Gt0(A) == [shape |-> A.shape,
           v |-> [i \in Idx(A.shape) |-> IF A.v[i] > 0 THEN 1 ELSE 0]]

And(A, B) == [shape |-> A.shape,
              v |-> [i \in Idx(A.shape) |->
                        IF A.v[i] # 0 /\ B.v[i] # 0 THEN 1 ELSE 0]]

\* a 4-d array whose channels are the 3-d arrays of the sequence chans
Stack(chans) ==
    LET shape == <<Len(chans)>> \o chans[1].shape
    IN  [shape |-> shape,
         v |-> [i \in Idx(shape) |-> chans[i[1] + 1].v[<<i[2], i[3], i[4]>>]]]

\* the arrays the runs draw: one value everywhere, or one value everywhere
\* but at one voxel
Fill(shape, b) == [shape |-> shape, v |-> [i \in Idx(shape) |-> b]]

Spot(shape, b, p, pv) ==
    [shape |-> shape, v |-> [i \in Idx(shape) |-> IF i = p THEN pv ELSE b]]

\* the volume shapes with extents up to d on each axis
ShapesUpTo(d) == {<<Z, Y, X>> : Z \in 1..d, Y \in 1..d, X \in 1..d}

Volumes(shape, vals) ==
    {Fill(shape, b) : b \in vals}
    \cup {Spot(shape, b, p, pv) : b \in vals, p \in Idx(shape), pv \in vals}

(***************************************************************************)
(* COutputLabel: affinity graph and affinity mask of a subvolume           *)
(***************************************************************************)
\* the neighbour slices with the channels in the order x, y, z
_lbl2aff_xyz(lbl) ==
    IF lbl.shape[1] # 1 THEN [err |-> "AssertionError"]
    ELSE
    LET Z == lbl.shape[2]
        Y == lbl.shape[3]
        X == lbl.shape[4]
        inner == Sub3(lbl, 0, <<From1(Z), From1(Y), From1(X)>>)
        a0 == And(Eq(inner, Sub3(lbl, 0, <<From1(Z), From1(Y), ToLast(X)>>)),
                  Gt0(inner))
        a1 == And(Eq(inner, Sub3(lbl, 0, <<From1(Z), ToLast(Y), From1(X)>>)),
                  Gt0(inner))
        a2 == And(Eq(inner, Sub3(lbl, 0, <<ToLast(Z), From1(Y), From1(X)>>)),
                  Gt0(inner))
    IN  [err |-> "none", val |-> Stack(<<a0, a1, a2>>)]

\* COutputLabel._lbl2aff
_lbl2aff(lbl) ==
    IF lbl.shape[1] # 1 THEN [err |-> "AssertionError"]
    ELSE
    LET Z == lbl.shape[2]
        Y == lbl.shape[3]
        X == lbl.shape[4]
        inner == Sub3(lbl, 0, <<From1(Z), From1(Y), From1(X)>>)
        a0 == And(Eq(inner, Sub3(lbl, 0, <<ToLast(Z), From1(Y), From1(X)>>)),
                  Gt0(inner))
        a1 == And(Eq(inner, Sub3(lbl, 0, <<From1(Z), ToLast(Y), From1(X)>>)),
                  Gt0(inner))
        a2 == And(Eq(inner, Sub3(lbl, 0, <<From1(Z), From1(Y), ToLast(X)>>)),
                  Gt0(inner))
    IN  [err |-> "none", val |-> Stack(<<a0, a1, a2>>)]

\* COutputLabel._msk2affmsk
_msk2affmsk(msk) ==
    IF Size(msk) = 0 THEN [err |-> "none", val |-> msk]
    ELSE
    LET Z == msk.shape[2]
        Y == msk.shape[3]
        X == msk.shape[4]
        shape == <<3, Z - 1, Y - 1, X - 1>>
        base(i) == msk.v[<<0, i[2], i[3], i[4]>>]
        next(i) == msk.v[<<0,
                           i[2] + (IF i[1] = 0 THEN 1 ELSE 0),
                           i[3] + (IF i[1] = 1 THEN 1 ELSE 0),
                           i[4] + (IF i[1] = 2 THEN 1 ELSE 0)>>]
    IN  [err |-> "none",
         val |-> [shape |-> shape,
                  v |-> [i \in Idx(shape) |->
                            IF base(i) > 0 /\ next(i) > 0 THEN 1 ELSE 0]]]

(***************************************************************************)
(* Runs of the two conversions on one subvolume.                           *)
(***************************************************************************)
notAff == <<pars, config, img, devrange, subvol, rft, label, sample>>

InitAff ==
    /\ pc = "subvolume"
    /\ \E Z \in 1..MaxDim, Y \in 1..MaxDim, X \in 1..MaxDim :
          vol \in Volumes(<<1, Z, Y, X>>, 0..MaxLabel)
    /\ ret = NA
    /\ pars = NA /\ config = NA /\ img = NA /\ devrange = NA /\ subvol = NA
    /\ rft = NA /\ label = NA /\ sample = NA

Lbl2Aff ==
    /\ pc = "subvolume"
    /\ ret' = _lbl2aff(vol)
    /\ pc' = "aff"
    /\ UNCHANGED <<vol, notAff>>

Msk2AffMsk ==
    /\ pc = "subvolume"
    /\ ret' = _msk2affmsk(vol)
    /\ pc' = "affmsk"
    /\ UNCHANGED <<vol, notAff>>

NextAff == Lbl2Aff \/ Msk2AffMsk

SpecAff == InitAff /\ [][NextAff]_vars

\* the voxel of the subvolume that entry i = <<a, z, y, x>> of the affinity
\* graph is about, and its neighbour one step back along axis a
Interior(i) == <<0, i[2] + 1, i[3] + 1, i[4] + 1>>

Back(i) == <<0,
             i[2] + (IF i[1] = 0 THEN 0 ELSE 1),
             i[3] + (IF i[1] = 1 THEN 0 ELSE 1),
             i[4] + (IF i[1] = 2 THEN 0 ELSE 1)>>

C5_MaskSameGrid ==
    (pc = "affmsk" /\ Size(vol) # 0) =>
       \A i \in Idx(ret.val.shape) :
          ret.val.v[i] = 1 <=> (vol.v[Interior(i)] > 0 /\ vol.v[Back(i)] > 0)

(***************************************************************************)
(* CImage._data_aug_transform                                              *)
(***************************************************************************)
\* the channel counts the transformation runs draw
Channels == {1, 2}

\* data[:, ::-1, :, :], data[:, :, ::-1, :], data[:, :, :, ::-1]
FlipZ(data) ==
    [shape |-> data.shape,
     v |-> [i \in Idx(data.shape) |->
               data.v[<<i[1], data.shape[2] - 1 - i[2], i[3], i[4]>>]]]

FlipY(data) ==
    [shape |-> data.shape,
     v |-> [i \in Idx(data.shape) |->
               data.v[<<i[1], i[2], data.shape[3] - 1 - i[3], i[4]>>]]]

FlipX(data) ==
    [shape |-> data.shape,
     v |-> [i \in Idx(data.shape) |->
               data.v[<<i[1], i[2], i[3], data.shape[4] - 1 - i[4]>>]]]

\* data.transpose(0,1,3,2)
TransposeYX(data) ==
    LET shape == <<data.shape[1], data.shape[2], data.shape[4], data.shape[3]>>
    IN  [shape |-> shape,
         v |-> [i \in Idx(shape) |-> data.v[<<i[1], i[2], i[4], i[3]>>]]]

\* the transpose taken before the reflections
_data_aug_transform_tfirst(data, rule) ==
    IF Len(rule) = 0 THEN data
    ELSE
    LET d0 == IF rule[4] THEN TransposeYX(data) ELSE data
        d1 == IF rule[1] THEN FlipZ(d0) ELSE d0
        d2 == IF rule[2] THEN FlipY(d1) ELSE d1
        d3 == IF rule[3] THEN FlipX(d2) ELSE d2
    IN  d3

\* CImage._data_aug_transform; rule is rft, a sequence of four booleans or
\* the empty sequence
_data_aug_transform(data, rule) ==
    IF Len(rule) = 0 THEN data
    ELSE
    LET d1 == IF rule[1] THEN FlipZ(data) ELSE data
        d2 == IF rule[2] THEN FlipY(d1) ELSE d1
        d3 == IF rule[3] THEN FlipX(d2) ELSE d2
        d4 == IF rule[4] THEN TransposeYX(d3) ELSE d3
    IN  d4

\* an array whose entries are all different
Ramp(shape) ==
    [shape |-> shape,
     v |-> [i \in Idx(shape) |->
               IF Len(shape) = 4
               THEN 1 + i[4] + shape[4] * (i[3] + shape[3] * (i[2] + shape[2] * i[1]))
               ELSE 1 + i[3] + shape[3] * (i[2] + shape[2] * i[1])]]

Rules == [1..4 -> BOOLEAN] \cup {<< >>}

notAug == <<pars, config, img, devrange, subvol, label, sample>>

InitAug ==
    /\ pc = "data"
    /\ \E C \in Channels, Z \in 1..MaxDim, Y \in 1..MaxDim, X \in 1..MaxDim :
          vol \in Volumes(<<C, Z, Y, X>>, 0..MaxLabel) \cup {Ramp(<<C, Z, Y, X>>)}
    /\ rft \in Rules
    /\ ret = NA
    /\ pars = NA /\ config = NA /\ img = NA /\ devrange = NA /\ subvol = NA
    /\ label = NA /\ sample = NA

Transform ==
    /\ pc = "data"
    /\ ret' = _data_aug_transform(vol, rft)
    /\ pc' = "once"
    /\ UNCHANGED <<vol, rft, notAug>>

TransformAgain ==
    /\ pc = "once"
    /\ ret' = _data_aug_transform(ret, rft)
    /\ pc' = "twice"
    /\ UNCHANGED <<vol, rft, notAug>>

NextAug == Transform \/ TransformAgain

SpecAug == InitAug /\ [][NextAug]_vars

NumSet(rule) == Cardinality({n \in DOMAIN rule : rule[n]})

\* C10: the result is the z-, y-, x-reflection (those enabled, in this
\* order) followed by the Y/X transpose, the channel index unchanged; with
\* no flag set or an empty rule the array comes back unchanged; applied
\* twice with exactly one flag set it gives the original array.
C10_Transform ==
    /\ (pc = "once" /\ Len(rft) = 4) =>
          LET Z == vol.shape[2]
              Y == vol.shape[3]
              X == vol.shape[4]
          IN  /\ ret.shape = <<vol.shape[1], Z,
                               IF rft[4] THEN X ELSE Y, IF rft[4] THEN Y ELSE X>>
              /\ DOMAIN ret.v = Idx(ret.shape)
              /\ \A i \in Idx(ret.shape) :
                    LET y == IF rft[4] THEN i[4] ELSE i[3]
                        x == IF rft[4] THEN i[3] ELSE i[4]
                    IN  ret.v[i] = vol.v[<<i[1],
                                           IF rft[1] THEN Z - 1 - i[2] ELSE i[2],
                                           IF rft[2] THEN Y - 1 - y ELSE y,
                                           IF rft[3] THEN X - 1 - x ELSE x>>]
    /\ (pc = "once" /\ NumSet(rft) = 0) => ret = vol
    /\ (pc = "twice" /\ NumSet(rft) = 1) => ret = vol

\* a y-reflection with transpose, applied once to an array with all entries
\* different and Y # X: the reflection acts on the axis that is Y before the
\* transpose
C10_Witness ==
    /\ pc = "once"
    /\ vol = Ramp(<<2, 1, 1, 2>>)
    /\ rft = <<FALSE, TRUE, FALSE, TRUE>>
    /\ ret.shape = <<2, 1, 2, 1>>
    /\ ret.v[<<0, 0, 1, 0>>] = 2

(***************************************************************************)
(* CImage._auto_crop and CImage._center_crop on a list of 3-d volumes      *)
(***************************************************************************)
\* most files a section names
MaxFiles == 2
\* largest extent of a file's volume, per axis (auto-crop runs)
MaxExt == 4

\* vol[lo1:hi1, lo2:hi2, lo3:hi3] of a 3-d array
Crop3(arr, s) ==
    LET shape == <<SliceLen(s[1]), SliceLen(s[2]), SliceLen(s[3])>>
    IN  [shape |-> shape,
         v |-> [i \in Idx(shape) |->
                   arr.v[<<s[1].lo + i[1], s[2].lo + i[2], s[3].lo + i[3]>>]]]

\* CImage._center_crop
_center_crop(arr, shape) ==
    LET sz1  == arr.shape
        sz2  == shape
        off1 == [a \in Axes |-> (sz1[a] - sz2[a] + 1) \div 2]
        off2 == [a \in Axes |-> (sz1[a] - sz2[a]) \div 2]
    IN  Crop3(arr, [a \in Axes |-> PySlice(sz1[a], off1[a], -off2[a])])

\* Python's order on tuples: by the first entry that differs
TupleLess(s, t) ==
    \E a \in Axes : s[a] < t[a] /\ \A b \in 1..(a - 1) : s[b] = t[b]

\* Python's min of a list of tuples
TupleMin(splist) ==
    LET n == CHOOSE m \in 1..Len(splist) :
                 \A k \in 1..Len(splist) : ~TupleLess(splist[k], splist[m])
    IN  splist[n]

\* CImage._auto_crop
_auto_crop(arrs) ==
    IF Len(arrs) = 1 THEN arrs
    ELSE
    LET splist == [n \in 1..Len(arrs) |-> arrs[n].shape]
        sz_min == TupleMin(splist)
    IN  [n \in 1..Len(arrs) |-> _center_crop(arrs[n], sz_min)]

notCrop == <<pars, config, img, devrange, subvol, rft, label, sample>>

InitCrop ==
    /\ pc = "read"
    /\ \E n \in 1..MaxFiles : \E shapes \in [1..n -> ShapesUpTo(MaxExt)] :
          vol = [k \in 1..n |-> Ramp(shapes[k])]
    /\ ret = NA
    /\ pars = NA /\ config = NA /\ img = NA /\ devrange = NA /\ subvol = NA
    /\ rft = NA /\ label = NA /\ sample = NA

AutoCrop ==
    /\ pc = "read"
    /\ ret' = _auto_crop(vol)
    /\ pc' = "cropped"
    /\ UNCHANGED <<vol, notCrop>>

NextCrop == AutoCrop

SpecCrop == InitCrop /\ [][NextCrop]_vars

\* the smallest extent among the volumes, on each axis
MinShape(arrs) ==
    [a \in Axes |->
        CHOOSE e \in {arrs[n].shape[a] : n \in 1..Len(arrs)} :
            \A n \in 1..Len(arrs) : e <= arrs[n].shape[a]]

\* C7: after auto-crop of two or more volumes every returned volume has the
\* per-axis minimum of the input shapes as its shape, also where an extent
\* already equals the minimum, and is the centred window of its source.
C7_AutoCropShape ==
    (pc = "cropped" /\ Len(vol) >= 2) =>
       \A n \in 1..Len(ret) :
          /\ ret[n].shape = MinShape(vol)
          /\ \A i \in Idx(ret[n].shape) :
                ret[n].v[i] =
                   vol[n].v[[a \in Axes |->
                               i[a] + (vol[n].shape[a] - ret[n].shape[a] + 1) \div 2]]

(***************************************************************************)
(* Construction of a CImage and of a COutputLabel from a configuration     *)
(* section.  A section is a record: fnames and (when the option is there)  *)
(* fmasks hold the contents of the files they list, pp_types the tokens of *)
(* the comma-separated option.  A call gives [err |-> "none", ...] or      *)
(* [err |-> the exception raised].                                         *)
(***************************************************************************)
\* the strings that contain 'aff'
AffNames == {"aff", "affinity"}

HasAff(str) == str \in AffNames

Raise(exc) == [err |-> exc]

\* np.asarray of a list of 3-d arrays with dtype float32: a 4-d array when
\* the shapes agree
AsArray(arrlist) ==
    IF \A n \in 1..Len(arrlist) : arrlist[n].shape = arrlist[1].shape
    THEN [err |-> "none", val |-> Stack(arrlist)]
    ELSE Raise("ValueError")

\* CImage.__init__
CImage_init(section, P, setsz) ==
    LET files   == section.fnames
        arrlist == IF section.is_auto_crop THEN _auto_crop(files) ELSE files
        Object(arr) ==
            IF arr.err # "none" THEN arr
            ELSE [err |-> "none",
                  self |-> [pars |-> P, arr |-> arr.val,
                            _is_auto_crop |-> section.is_auto_crop]
                           @@ CImage_fields(<<arr.val.shape[2], arr.val.shape[3],
                                              arr.val.shape[4]>>, setsz)]
    IN  Object(AsArray(arrlist))

\* weights are exact fractions <<numerator, denominator>>
Frac(n, d) == <<n, d>>

Times(m, w) == <<m * w[1], w[2]>>

FracEq(u, w) == u[1] * w[2] = w[1] * u[2]

\* np.count_nonzero
CountNonzero(arr) == Cardinality({i \in DOMAIN arr.v : arr.v[i] # 0})

\* COutputLabel._get_balance_weight
_get_balance_weight(arr) ==
    LET num_nz == CountNonzero(arr)
        num    == Size(arr)
    IN  IF num_nz = 0 \/ num - num_nz = 0 THEN Raise("ZeroDivisionError")
        ELSE [err |-> "none",
              wp |-> Frac(num, 2 * num_nz),
              wz |-> Frac(num, 2 * (num - num_nz))]

\* COutputLabel._rebalance
_rebalance(self) ==
    IF "pp_types" \notin DOMAIN self THEN Raise("AttributeError")
    ELSE IF HasAff(self.pp_types[1])
    THEN
       LET Z == self.arr.shape[2]
           Y == self.arr.shape[3]
           X == self.arr.shape[4]
           inner == Sub3(self.arr, 0, <<From1(Z), From1(Y), From1(X)>>)
           zlbl == Neq(inner, Sub3(self.arr, 0, <<ToLast(Z), From1(Y), From1(X)>>))
           ylbl == Neq(inner, Sub3(self.arr, 0, <<From1(Z), ToLast(Y), From1(X)>>))
           xlbl == Neq(inner, Sub3(self.arr, 0, <<From1(Z), From1(Y), ToLast(X)>>))
           zw == _get_balance_weight(zlbl)
           yw == _get_balance_weight(ylbl)
           xw == _get_balance_weight(xlbl)
       IN  IF zw.err # "none" THEN zw
           ELSE IF yw.err # "none" THEN yw
           ELSE IF xw.err # "none" THEN xw
           ELSE [err |-> "none",
                 self |-> [zwp |-> zw.wp, zwz |-> zw.wz, ywp |-> yw.wp,
                           ywz |-> yw.wz, xwp |-> xw.wp, xwz |-> xw.wz] @@ self]
    ELSE
       LET w == _get_balance_weight(self.arr)
       IN  IF w.err # "none" THEN w
           ELSE
           LET weight == [shape |-> self.arr.shape,
                          v |-> [i \in Idx(self.arr.shape) |->
                                    IF self.arr.v[i] > 0 THEN w.wp ELSE w.wz]]
               msk == IF Size(self.msk) = 0 THEN weight
                      ELSE [shape |-> weight.shape,
                            v |-> [i \in Idx(weight.shape) |->
                                      Times(self.msk.v[i], weight.v[i])]]
           IN  [err |-> "none", self |-> [self EXCEPT !.msk = msk]]

\* COutputLabel._rebalance_aff
_rebalance_aff(self, lbl, msk) ==
    IF "zwp" \notin DOMAIN self THEN Raise("AttributeError")
    ELSE
    LET wp  == <<self.zwp, self.ywp, self.xwp>>
        wz  == <<self.zwz, self.ywz, self.xwz>>
        wts == [shape |-> lbl.shape,
                v |-> [i \in Idx(lbl.shape) |->
                          IF lbl.v[i] > 0 THEN wp[i[1] + 1] ELSE wz[i[1] + 1]]]
    IN  IF Size(msk) = 0 THEN [err |-> "none", val |-> wts]
        ELSE [err |-> "none",
              val |-> [shape |-> wts.shape,
                       v |-> [i \in Idx(wts.shape) |-> Times(msk.v[i], wts.v[i])]]]

(***************************************************************************)
(* Runs of the weight computation on a label object that has its labels    *)
(* and its preprocessing kind.                                             *)
(***************************************************************************)
notBalance == <<pars, config, img, devrange, subvol, vol, rft, sample>>

InitBalance ==
    /\ pc = "labels"
    /\ \E Z \in 1..MaxExt, Y \in 1..MaxDim, X \in 1..MaxDim :
       \E arr \in Volumes(<<1, Z, Y, X>>, 0..MaxLabel) :
       \E pp \in {"aff", "none"} :
          label = [err |-> "none",
                   self |-> [arr |-> arr, msk |-> EmptyArray, pp_types |-> <<pp>>]]
    /\ ret = NA
    /\ pars = NA /\ config = NA /\ img = NA /\ devrange = NA /\ subvol = NA
    /\ vol = NA /\ rft = NA /\ sample = NA

Rebalance ==
    /\ pc = "labels"
    /\ label' = _rebalance(label.self)
    /\ pc' = "weighted"
    /\ UNCHANGED <<ret, notBalance>>

\* the weights laid over the affinity graph of the whole label volume
RebalanceAff ==
    /\ pc = "weighted"
    /\ label.err = "none"
    /\ HasAff(label.self.pp_types[1])
    /\ LET aff == _lbl2aff(label.self.arr).val
       IN  ret' = [aff |-> aff,
                   wts |-> _rebalance_aff(label.self, aff, EmptyArray).val]
    /\ pc' = "applied"
    /\ UNCHANGED <<label, notBalance>>

NextBalance == Rebalance \/ RebalanceAff

SpecBalance == InitBalance /\ [][NextBalance]_vars

\* entries of channel a of a 4-d array, and those that are positive
Chan(arr, a) == {i \in DOMAIN arr.v : i[1] = a}

Pos(arr, a) == {i \in Chan(arr, a) : arr.v[i] > 0}

\* C9: for each axis a the weights _rebalance_aff lays on the positive and
\* on the zero affinities satisfy wPositive*nnz + wZero*(n-nnz) = n, with n
\* the size of the interior grid of the whole label volume and nnz its
\* number of positive affinities along a, whenever 0 < nnz < n.
C9_Balanced ==
    pc = "applied" =>
       \A a \in 0..2 :
          LET n   == Cardinality(Chan(ret.aff, a))
              nnz == Cardinality(Pos(ret.aff, a))
          IN  (0 < nnz /\ nnz < n) =>
                 \E wp \in {ret.wts.v[i] : i \in Pos(ret.aff, a)},
                    wz \in {ret.wts.v[i] : i \in Chan(ret.aff, a) \ Pos(ret.aff, a)} :
                    /\ \A i \in Pos(ret.aff, a) : ret.wts.v[i] = wp
                    /\ \A i \in Chan(ret.aff, a) \ Pos(ret.aff, a) : ret.wts.v[i] = wz
                    /\ wp[1] * nnz * wz[2] + wz[1] * (n - nnz) * wp[2]
                          = n * wp[2] * wz[2]
                    /\ FracEq(wp, Frac(n, 2 * nnz))
                    /\ FracEq(wz, Frac(n, 2 * (n - nnz)))

(***************************************************************************)
(* COutputLabel: construction, preprocessing, extraction                  *)
(***************************************************************************)
\* CImage.get_sub_volume; an array with fewer than four axes cannot take
\* the four-fold index
get_sub_volume(self, arr, dev, rule) ==
    IF Len(arr.shape) # 4 THEN Raise("IndexError")
    ELSE
    LET w   == SubWindow(self, <<arr.shape[2], arr.shape[3], arr.shape[4]>>, dev)
        sub == Sub4(arr, w)
    IN  [err |-> "none",
         val |-> IF self.pars.is_data_aug THEN _data_aug_transform(sub, rule)
                 ELSE sub]

\* np.tile(msk, (2,1,1,1))
Tile2(msk) ==
    IF Len(msk.shape) = 4
    THEN LET shape == <<2 * msk.shape[1], msk.shape[2], msk.shape[3], msk.shape[4]>>
         IN  [shape |-> shape,
              v |-> [i \in Idx(shape) |->
                        msk.v[<<i[1] % msk.shape[1], i[2], i[3], i[4]>>]]]
    ELSE Zeros(<<2, 1, 1, msk.shape[1]>>)

\* COutputLabel._binary_class
_binary_class(lbl) ==
    IF lbl.shape[1] # 1 THEN Raise("AssertionError")
    ELSE LET shape == <<2, lbl.shape[2], lbl.shape[3], lbl.shape[4]>>
         IN  [err |-> "none",
              val |-> [shape |-> shape,
                       v |-> [i \in Idx(shape) |->
                                 LET pos == IF lbl.v[<<0, i[2], i[3], i[4]>>] > 0
                                            THEN 1 ELSE 0
                                 IN  IF i[1] = 0 THEN pos ELSE 1 - pos]]]

\* COutputLabel._preprocess
_preprocess(self) ==
    IF Len(self.pp_types) # 1 THEN Raise("AssertionError")
    ELSE
    LET pp_type == self.pp_types[1]
    IN  IF pp_type = "none" \/ pp_type = "None"
        THEN [err |-> "none", self |-> self]
        ELSE IF pp_type = "binary_class"
        THEN LET b == _binary_class(self.arr)
             IN  IF b.err # "none" THEN b
                 ELSE [err |-> "none",
                       self |-> [self EXCEPT !.arr = b.val, !.msk = Tile2(self.msk)]]
        ELSE IF pp_type = "one_class"
        THEN [err |-> "none", self |-> [self EXCEPT !.arr = Gt0(self.arr)]]
        ELSE IF HasAff(pp_type)
        THEN [err |-> "none", self |-> self]
        ELSE Raise("NameError")

\* COutputLabel.__init__
COutputLabel_init(section, P, setsz) ==
    LET \* affinity output: one more voxel per axis
        Grow(s0) ==
            LET grown == VAddK(s0.setsz, 1)
            IN  IF HasAff(P.out_dtype)
                THEN [s0 EXCEPT !.setsz      = grown,
                                !.low_setsz  = VHalf(VAddK(grown, -1)),
                                !.high_setsz = VHalf(grown)]
                ELSE s0
        \* the mask
        fmasks == section.fnames
        Mask(s1) ==
            IF "fmasks" \in DOMAIN section
            THEN Gt0(AsArray(IF s1._is_auto_crop THEN _auto_crop(fmasks)
                             ELSE fmasks).val)
            ELSE EmptyArray
        \* pp_types is set and the preprocessing done after the rebalancing
        Prep(s3) ==
            IF s3.err # "none" THEN s3
            ELSE _preprocess([pp_types |-> section.pp_types] @@ s3.self)
        Rebal(s2) ==
            Prep(IF P.is_rebalance THEN _rebalance(s2)
                 ELSE [err |-> "none", self |-> s2])
        Masked(s1, msk) ==
            IF "fmasks" \in DOMAIN section /\ s1.arr.shape # msk.shape
            THEN Raise("AssertionError")
            ELSE Rebal([msk |-> msk] @@ s1)
        Grown(s1) == Masked(s1, Mask(s1))
        Label(base) ==
            IF base.err # "none" THEN base ELSE Grown(Grow(base.self))
    IN  Label(CImage_init(section, P, setsz))

\* COutputLabel.get_subvol
get_subvol(self, dev, rule) ==
    LET Weighted(aff, w) ==
            IF w.err # "none" THEN w
            ELSE [err |-> "none", sublbl |-> aff.val, submsk |-> w.val]
        Affinity(aff, affmsk) ==
            IF aff.err # "none" THEN aff
            ELSE IF ~self.pars.is_rebalance
            THEN [err |-> "none", sublbl |-> aff.val, submsk |-> affmsk.val]
            ELSE Weighted(aff, _rebalance_aff(self, aff.val, affmsk.val))
        Sub(sublbl, submsk) ==
            IF sublbl.err # "none" THEN sublbl
            ELSE IF submsk.err # "none" THEN submsk
            ELSE IF ~HasAff(self.pp_types[1])
            THEN [err |-> "none", sublbl |-> sublbl.val, submsk |-> submsk.val]
            ELSE Affinity(_lbl2aff(sublbl.val), _msk2affmsk(submsk.val))
    IN  Sub(get_sub_volume(self, self.arr, dev, rule),
            get_sub_volume(self, self.msk, dev, rule))

(***************************************************************************)
(* Runs of one COutputLabel: a label section and the parameters are given, *)
(* the label is constructed, subvolumes are fetched.                       *)
(***************************************************************************)
PPTokens == {"none", "binary_class", "one_class", "aff", "bogus"}

OutDtypes == {"aff", "boundary"}

\* the files of a section: one file, or n files
FileLists(d, n) ==
    {<<f>> : f \in UNION {{Fill(sh, 0), Fill(sh, 1), Ramp(sh)} : sh \in ShapesUpTo(d)}}
    \cup {[k \in 1..n |-> Ramp(shapes[k])] : shapes \in [1..n -> ShapesUpTo(d)]}

\* mask files that go with a list of label files: same shapes, all 0 or all 1
MaskLists(files) == {[k \in 1..Len(files) |-> Fill(files[k].shape, b)] : b \in 0..1}

\* the label sections over a set of file lists
Sections(lists) ==
    UNION {
       {[fnames |-> files, is_auto_crop |-> crop, pp_types |-> <<pp>>] :
           crop \in BOOLEAN, pp \in PPTokens}
       \cup
       {[fnames |-> files, fmasks |-> masks, is_auto_crop |-> crop,
         pp_types |-> <<pp>>] :
           masks \in MaskLists(files), crop \in BOOLEAN, pp \in PPTokens}
       : files \in lists}

Params == [is_data_aug : BOOLEAN, out_dtype : OutDtypes, is_rebalance : BOOLEAN]

\* the rules get_subvol is called with in the label runs
LabelRules == {[n \in 1..4 |-> FALSE], [n \in 1..4 |-> TRUE]}

notLabel == <<img, devrange, subvol, vol, rft, sample>>

InitLabel ==
    /\ pc = "config"
    /\ \E sec \in Sections(FileLists(MaxDim, MaxFiles)), setsz \in Vec(1..MaxDim) :
          config = [section |-> sec, setsz |-> setsz]
    /\ pars \in Params
    /\ label = NA
    /\ ret = NA
    /\ img = NA /\ devrange = NA /\ subvol = NA /\ vol = NA /\ rft = NA
    /\ sample = NA

NewLabel ==
    /\ pc = "config"
    /\ label' = COutputLabel_init(config.section, pars, config.setsz)
    /\ pc' = "constructed"
    /\ UNCHANGED <<pars, config, ret, notLabel>>

GetSubvol ==
    /\ pc = "constructed"
    /\ label.err = "none"
    /\ LET r == get_dev_range(label.self)
       IN  \E dev \in Vec(-MaxDim..MaxDim), rule \in LabelRules :
              /\ VLeq(r.low, dev)
              /\ VLeq(dev, r.high)
              /\ ret' = [dev |-> dev, rft |-> rule] @@ get_subvol(label.self, dev, rule)
    /\ pc' = "fetched"
    /\ UNCHANGED <<pars, config, label, notLabel>>

NextLabel == NewLabel \/ GetSubvol

SpecLabel == InitLabel /\ [][NextLabel]_vars

\* C6: with the option fmasks in the section, the mask of the constructed
\* label is the binarisation of the files listed under fmasks, whatever the
\* label files hold.  (Stated where the preprocessing does not tile the mask
\* and the files are not cropped.)
C6_MaskFromFmasks ==
    (/\ pc = "constructed"
     /\ label.err = "none"
     /\ "fmasks" \in DOMAIN config.section
     /\ config.section.pp_types[1] # "binary_class"
     /\ ~config.section.is_auto_crop)
    => label.self.msk = Gt0(Stack(config.section.fmasks))

\* C8: with is_rebalance the constructor reads no attribute before it is
\* set, and when it returns the weights are there: the six per-axis
\* weights in affinity mode, a weight-valued mask otherwise.
C8_RebalanceConstructs ==
    (pc = "constructed" /\ pars.is_rebalance) =>
       /\ label.err # "AttributeError"
       /\ label.err = "none" =>
             IF HasAff(label.self.pp_types[1])
             THEN {"zwp", "zwz", "ywp", "ywz", "xwp", "xwz"} \subseteq DOMAIN label.self
             ELSE Size(label.self.msk) # 0

\* C11: for every out_dtype and every pp_types token, a subvolume fetched
\* at a legal deviation with all transform flags false has the target size
\* that was asked for at construction as its spatial shape: the growth by
\* one voxel at construction and the voxel the affinity conversion removes
\* always go together.
C11_SubvolTargetSize ==
    (/\ pc = "fetched"
     /\ ret.err = "none"
     /\ ret.rft = [n \in 1..4 |-> FALSE]
     /\ VLeq(label.self.setsz, label.self.sz))
    => <<ret.sublbl.shape[2], ret.sublbl.shape[3], ret.sublbl.shape[4]>>
          = config.setsz

(***************************************************************************)
(* CInputImage                                                             *)
(***************************************************************************)
InputTokens == {"standard2D", "standard3D", "none", "None"}

\* CInputImage._preprocess of one channel.  The standardised values are
\* reals ((vol - mean) / std); the model keeps the raw values in arr and
\* records in pp which standardisation each channel went through.
CInputImage_preprocess(pp_type) ==
    IF pp_type \in InputTokens THEN [err |-> "none", val |-> pp_type]
    ELSE Raise("NameError")

\* CInputImage.__init__
CInputImage_init(section, P, setsz) ==
    LET pp_types == section.pp_types
        Image(base) ==
            IF base.err # "none" THEN base
            ELSE
            LET chans == 1..base.self.arr.shape[1]
            IN  IF \E c \in chans :
                      /\ c > Len(pp_types)
                      /\ \A b \in 1..(c - 1) :
                            CInputImage_preprocess(pp_types[b]).err = "none"
                THEN Raise("IndexError")
                ELSE IF \E c \in chans : CInputImage_preprocess(pp_types[c]).err # "none"
                THEN Raise("NameError")
                ELSE [err |-> "none",
                      self |-> [pp |-> [c \in chans |-> pp_types[c]]] @@ base.self]
    IN  Image(CImage_init(section, P, setsz))

\* CInputImage.get_subvol
CInputImage_get_subvol(self, dev, rule) == get_sub_volume(self, self.arr, dev, rule)

\* CInputImage.get_dev_range
CInputImage_get_dev_range(self) ==
    LET r == get_dev_range(self)
    IN  IF HasAff(self.pars.out_dtype)
        THEN [low |-> VAddK(r.low, 1), high |-> r.high]
        ELSE r

(***************************************************************************)
(* CSample.  The configuration of a sample maps each layer name of the     *)
(* network to the number of an image or label section; the network gives   *)
(* for each layer name its size (channels, z, y, x).                       *)
(***************************************************************************)
\* sys.maxsize and -sys.maxint-1: the model's integers have 32 bits, the
\* values only have to lie beyond every deviation
sys_maxsize == 2147483647

sys_minint == -2147483647 - 1

VMin(u, v) == [a \in Axes |-> IF u[a] <= v[a] THEN u[a] ELSE v[a]]

VMax(u, v) == [a \in Axes |-> IF u[a] >= v[a] THEN u[a] ELSE v[a]]

\* the loop over info_in of CSample.__init__
RECURSIVE LoadInputs(_, _, _, _, _)
LoadInputs(names, conf, P, info_in, acc) ==
    IF names = {} \/ acc.err # "none" THEN acc
    ELSE
    LET name == CHOOSE n \in names : TRUE
        Add(im) ==
            IF im.err # "none" THEN im
            ELSE
            LET r == CInputImage_get_dev_range(im.self)
            IN  LoadInputs(names \ {name}, conf, P, info_in,
                   [err |-> "none",
                    self |-> [acc.self EXCEPT
                                 !.inputs   = (name :> im.self) @@ @,
                                 !.dev_high = VMin(@, r.high),
                                 !.dev_low  = VMax(@, r.low)]])
    IN  Add(CInputImage_init(conf.image[conf.sample[name]], P, Tail(info_in[name])))

\* the loop over info_out of CSample.__init__
RECURSIVE LoadOutputs(_, _, _, _, _)
LoadOutputs(names, conf, P, info_out, acc) ==
    IF names = {} \/ acc.err # "none" THEN acc
    ELSE
    LET name == CHOOSE n \in names : TRUE
        Add(lb) ==
            IF lb.err # "none" THEN lb
            ELSE
            LET r == get_dev_range(lb.self)
            IN  LoadOutputs(names \ {name}, conf, P, info_out,
                   [err |-> "none",
                    self |-> [acc.self EXCEPT
                                 !.outputs  = (name :> lb.self) @@ @,
                                 !.dev_high = VMin(@, r.high),
                                 !.dev_low  = VMax(@, r.low)]])
    IN  Add(COutputLabel_init(conf.label[conf.sample[name]], P, Tail(info_out[name])))

\* CSample.__init__
CSample_init(conf, P, net) ==
    LET start == [err |-> "none",
                  self |-> [pars     |-> P,
                            dev_high |-> [a \in Axes |-> sys_maxsize],
                            dev_low  |-> [a \in Axes |-> sys_minint],
                            inputs   |-> << >>,
                            outputs  |-> << >>]]
        ins == LoadInputs(DOMAIN net.inputs, conf, P, net.inputs, start)
    IN  LoadOutputs(DOMAIN net.outputs, conf, P, net.outputs, ins)

\* the first exception among the calls of a dict of results, if any
FirstError(calls) ==
    IF \E n \in DOMAIN calls : calls[n].err # "none"
    THEN Raise(calls[CHOOSE n \in DOMAIN calls : calls[n].err # "none"].err)
    ELSE [err |-> "none"]

\* CSample.get_random_sample once rft and dev are drawn
Fetch(self, dev, rule) ==
    LET Gather(ins, outs) ==
            IF FirstError(ins).err # "none" THEN FirstError(ins)
            ELSE IF FirstError(outs).err # "none" THEN FirstError(outs)
            ELSE [err     |-> "none",
                  dev     |-> dev,
                  rft     |-> rule,
                  inputs  |-> [n \in DOMAIN ins |-> ins[n].val],
                  outputs |-> [n \in DOMAIN outs |-> outs[n].sublbl],
                  msks    |-> [n \in DOMAIN outs |-> outs[n].submsk]]
    IN  Gather([n \in DOMAIN self.inputs |->
                   CInputImage_get_subvol(self.inputs[n], dev, rule)],
               [n \in DOMAIN self.outputs |->
                   get_subvol(self.outputs[n], dev, rule)])

\* np.random.randint(low, high): the integers it can return; it raises
\* ValueError when there is none
RandInt(low, high) == low..(high - 1)

(***************************************************************************)
(* Runs of one CSample with one input layer and one output layer: the      *)
(* sample is constructed, then random samples are fetched.                 *)
(***************************************************************************)
\* largest extent of a volume and of a layer size, per axis (sample runs)
MaxVol == 2

\* image sections: one file, standardised as a whole
ImageSections ==
    {[fnames |-> <<Ramp(sh)>>, is_auto_crop |-> FALSE, pp_types |-> <<pp>>] :
        sh \in ShapesUpTo(MaxVol), pp \in {"standard3D"}}

\* label sections: one file, with or without a mask file
SampleTokens == {"none", "aff", "bogus"}

LabelSections ==
    {[fnames |-> <<Ramp(sh)>>, is_auto_crop |-> FALSE, pp_types |-> <<pp>>] :
        sh \in ShapesUpTo(MaxVol), pp \in SampleTokens}
    \cup
    {[fnames |-> <<Ramp(sh)>>, fmasks |-> <<Fill(sh, 1)>>, is_auto_crop |-> FALSE,
      pp_types |-> <<pp>>] :
        sh \in ShapesUpTo(MaxVol), pp \in SampleTokens}

\* the parameters of the sample runs; with is_rebalance no label is ever
\* constructed (see the label runs)
SampleParams == [is_data_aug : BOOLEAN, out_dtype : OutDtypes, is_rebalance : {FALSE}]

notSample == <<img, devrange, subvol, vol, rft, label>>

Init ==
    /\ pc = "config"
    /\ \E im \in ImageSections, lb \in LabelSections,
          isz \in Vec(1..MaxVol), osz \in Vec(1..MaxVol) :
          config = [conf |-> [sample |-> [input |-> 1, output |-> 1],
                              image  |-> <<im>>,
                              label  |-> <<lb>>],
                    net  |-> [inputs  |-> [input  |-> <<1>> \o isz],
                              outputs |-> [output |-> <<1>> \o osz]]]
    /\ pars \in SampleParams
    /\ sample = NA
    /\ ret = NA
    /\ img = NA /\ devrange = NA /\ subvol = NA /\ vol = NA /\ rft = NA
    /\ label = NA

NewSample ==
    /\ pc = "config"
    /\ sample' = CSample_init(config.conf, pars, config.net)
    /\ pc' = "constructed"
    /\ UNCHANGED <<pars, config, ret, notSample>>

GetRandomSample ==
    /\ pc \in {"constructed", "sampled"}
    /\ sample.err = "none"
    /\ LET self == sample.self
       IN  IF \E a \in Axes : RandInt(self.dev_low[a], self.dev_high[a]) = {}
           THEN ret' = Raise("ValueError")
           ELSE \E rule \in [1..4 -> BOOLEAN], dev \in [Axes -> -MaxVol..MaxVol] :
                   /\ \A a \in Axes :
                         dev[a] \in RandInt(self.dev_low[a], self.dev_high[a])
                   /\ ret' = Fetch(self, dev, rule)
    /\ pc' = "sampled"
    /\ UNCHANGED <<pars, config, sample, notSample>>

Next == NewSample \/ GetRandomSample

Spec == Init /\ [][Next]_vars

\* the volumes of a constructed sample
Members(self) ==
    {self.inputs[n] : n \in DOMAIN self.inputs}
    \cup {self.outputs[n] : n \in DOMAIN self.outputs}

\* C2: a constructed sample with dev_low <= dev_high on every axis (equal
\* bounds included) returns from get_random_sample without an exception,
\* with one deviation inside [dev_low, dev_high] and one rule of four flags,
\* and every volume is cut at that deviation under that rule.
C2_SampleNeverRaises ==
    (/\ pc = "sampled"
     /\ VLeq(sample.self.dev_low, sample.self.dev_high))
    => /\ ret.err = "none"
       /\ VLeq(sample.self.dev_low, ret.dev)
       /\ VLeq(ret.dev, sample.self.dev_high)
       /\ Len(ret.rft) = 4
       /\ \A n \in DOMAIN sample.self.inputs :
             ret.inputs[n] =
                get_sub_volume(sample.self.inputs[n], sample.self.inputs[n].arr,
                               ret.dev, ret.rft).val
       /\ \A n \in DOMAIN sample.self.outputs :
             get_subvol(sample.self.outputs[n], ret.dev, ret.rft).sublbl
                = ret.outputs[n]

\* C3: when a layer size exceeds its volume on some axis, or the
\* intersection of the deviation ranges is empty on some axis, the
\* construction raises: no constructed sample has dev_low > dev_high.
C3_EmptyRangeRejected ==
    (pc \in {"constructed", "sampled"} /\ sample.err = "none") =>
       /\ \A m \in Members(sample.self) : VLeq(m.setsz, m.sz)
       /\ VLeq(sample.self.dev_low, sample.self.dev_high)

====
